---- MODULE Spec2Model ----
(***************************************************************************)
(* Model of scripts/fix_astro_class.py: a one-shot migration that walks    *)
(* two directory trees, and in every file whose name ends in ".astro"      *)
(* rewrites class= to className= on capitalised tags with one regex pass.  *)
(* Texts and file names are sequences of one-character strings.            *)
(***************************************************************************)
EXTENDS Integers, Sequences, FiniteSets, TLC

VARIABLES
  pc,           \* position of the script (or of the rewriter harness)
  content,      \* local: text read from the current file
  new_content,  \* local: pattern.sub(replace_match, content)
  again,        \* rewriter harness: result of a second pass over new_content
  status,       \* per root: "ok", "missing" or "unreadable"
  disk,         \* file id -> text currently stored in that file
  disk0,        \* file id -> text stored before the run started
  ri,           \* index of the root being processed (module-level calls)
  fi,           \* index into the walk of the current root
  out,          \* lines printed on standard output, oldest first
  opened,       \* set of <<file id, mode>> of every open() performed
  exc           \* "none", or the kind and place of the exception raised

vars == <<pc, content, new_content, again, status, disk, disk0, ri, fi, out, opened, exc>>

----------------------------------------------------------------------------
(* Character classes of the pattern (ASCII part of \w and \s).             *)

Upper == {"A", "B", "C", "D", "E", "F", "G", "H", "I", "J", "K", "L", "M", "N", "O", "P", "Q", "R", "S", "T", "U", "V", "W", "X", "Y", "Z"}
Lower == {"a", "b", "c", "d", "e", "f", "g", "h", "i", "j", "k", "l", "m", "n", "o", "p", "q", "r", "s", "t", "u", "v", "w", "x", "y", "z"}
Digit == {"0", "1", "2", "3", "4", "5", "6", "7", "8", "9"}
Quote == {"\"", "'"}

\* \w, \s and [\w\.]
WordChars == Upper \cup Lower \cup Digit \cup {"_"}
SpaceChars == {" ", "\t", "\n", "\r", "\f"}
NameChars == WordChars \cup {"."}

IsWord(c) == c \in WordChars
IsSpace(c) == c \in SpaceChars
IsNameChar(c) == c \in NameChars

\* No character: what lies before the first and after the last position.
NoChar == ""
At(s, i) == IF i >= 1 /\ i <= Len(s) THEN s[i] ELSE NoChar

\* \b : exactly one of the two neighbouring positions holds a word character.
WordBoundary(s, r) == IsWord(At(s, r - 1)) # IsWord(At(s, r))

Literal(s, r, lit) ==
  /\ r + Len(lit) - 1 <= Len(s)
  /\ \A j \in 1..Len(lit) : s[r + j - 1] = lit[j]

ClassEq == <<"c", "l", "a", "s", "s", "=">>
ClassNameEq == <<"c", "l", "a", "s", "s", "N", "a", "m", "e", "=">>

----------------------------------------------------------------------------
(* The compiled pattern, run as the backtracking matcher runs it:          *)
(*   (<[A-Z][\w\.]+(?:\s+[^>]*?)?)\bclass=(["\'][^"\']*["\'])              *)
(* A match is [start, g1, end]: group 1 is start..g1-1, class= sits at g1, *)
(* group 2 is g1+6..end-1.  end = 0 means no match.                        *)

NoMatch == [start |-> 0, g1 |-> 0, end |-> 0]

RECURSIVE RunEnd(_, _, _)
\* First position >= i whose character is not in the class (greedy run).
RunEnd(s, i, kind) ==
  IF i > Len(s) THEN i
  ELSE IF \/ kind = "name" /\ IsNameChar(s[i])
          \/ kind = "space" /\ IsSpace(s[i])
          \/ kind = "value" /\ s[i] \notin Quote
       THEN RunEnd(s, i + 1, kind)
       ELSE i

RECURSIVE ValueTry(_, _, _)
\* [^"\']*["\'] : the run is greedy and gives characters back until a quote follows.
ValueTry(s, v, t) ==
  IF At(s, t) \in Quote THEN t + 1
  ELSE IF t > v + 1 THEN ValueTry(s, v, t - 1)
  ELSE 0

\* \bclass=(["\'][^"\']*["\']) tried at position r; the end of the match or 0.
TailMatch(s, r) ==
  IF /\ WordBoundary(s, r)
     /\ Literal(s, r, ClassEq)
     /\ At(s, r + Len(ClassEq)) \in Quote
  THEN ValueTry(s, r + Len(ClassEq), RunEnd(s, r + Len(ClassEq) + 1, "value"))
  ELSE 0

RECURSIVE LazyTry(_, _, _)
\* [^>]*? : take as few characters as possible, one more after each failure.
LazyTry(s, i, r) ==
  LET e == TailMatch(s, r) IN
  IF e # 0 THEN [start |-> i, g1 |-> r, end |-> e]
  ELSE IF r <= Len(s) /\ s[r] # ">" THEN LazyTry(s, i, r + 1)
  ELSE NoMatch

RECURSIVE SpaceTry(_, _, _, _)
\* \s+ : greedy, w whitespace characters taken, at least one.
SpaceTry(s, i, p, w) ==
  IF w < 1 THEN NoMatch
  ELSE LET m == LazyTry(s, i, p + w) IN
       IF m.end # 0 THEN m ELSE SpaceTry(s, i, p, w - 1)

\* (?:\s+[^>]*?)? : the group is tried first, then skipped.
OptGroup(s, i, p) ==
  LET m == SpaceTry(s, i, p, RunEnd(s, p, "space") - p) IN
  IF m.end # 0 THEN m
  ELSE LET e == TailMatch(s, p) IN
       IF e # 0 THEN [start |-> i, g1 |-> p, end |-> e] ELSE NoMatch

RECURSIVE NameTry(_, _, _)
\* [\w\.]+ : greedy, n characters taken, at least one.
NameTry(s, i, n) ==
  IF n < 1 THEN NoMatch
  ELSE LET m == OptGroup(s, i, i + 2 + n) IN
       IF m.end # 0 THEN m ELSE NameTry(s, i, n - 1)

\* pattern.match at position i.
MatchAt(s, i) ==
  IF At(s, i) = "<" /\ At(s, i + 1) \in Upper
  THEN NameTry(s, i, RunEnd(s, i + 2, "name") - (i + 2))
  ELSE NoMatch

\* f'{match.group(1)}className={match.group(2)}'
replace_match(s, m) ==
  SubSeq(s, m.start, m.g1 - 1) \o ClassNameEq \o SubSeq(s, m.g1 + Len(ClassEq), m.end - 1)

RECURSIVE SubFrom(_, _)
\* re.sub: leftmost match from pos, replaced; scanning resumes at its end.
SubFrom(s, pos) ==
  IF pos > Len(s) THEN <<>>
  ELSE LET m == MatchAt(s, pos) IN
       IF m.end # 0 THEN replace_match(s, m) \o SubFrom(s, m.end)
       ELSE <<s[pos]>> \o SubFrom(s, pos + 1)

RECURSIVE SubFirstOnly(_, _)
SubFirstOnly(s, pos) ==
  IF pos > Len(s) THEN <<>>
  ELSE LET m == MatchAt(s, pos) IN
       IF m.end # 0 THEN replace_match(s, m) \o SubSeq(s, m.end, Len(s))
       ELSE <<s[pos]>> \o SubFirstOnly(s, pos + 1)

\* Variant: only the first match is replaced (count = 1).
PatternSubFirstOnly(s) == SubFirstOnly(s, 1)

\* pattern.sub(replace_match, content)
PatternSub(s) == SubFrom(s, 1)

RECURSIVE MatchesFrom(_, _)
\* The matches re.sub replaces, in order.
MatchesFrom(s, pos) ==
  IF pos > Len(s) THEN <<>>
  ELSE LET m == MatchAt(s, pos) IN
       IF m.end # 0 THEN <<m>> \o MatchesFrom(s, m.end)
       ELSE MatchesFrom(s, pos + 1)

Matches(s) == MatchesFrom(s, 1)

----------------------------------------------------------------------------
(* Texts: the documented cases, and every short text over Pieces.         *)

\* <Foo class="a b"></Foo>
SimpleTag ==
  <<"<", "F", "o", "o", " ", "c", "l", "a", "s", "s", "=", "\"", "a", " ", "b", "\"", ">", "<", "/", "F", "o", "o", ">">>

\* <Foo class="x" /> <Bar class="y" />
TwoTags ==
  <<"<", "F", "o", "o", " ", "c", "l", "a", "s", "s", "=", "\"", "x", "\"", " ", "/", ">", " ", "<", "B", "a", "r", " ", "c", "l", "a", "s", "s", "=", "\"", "y", "\"", " ", "/", ">">>

\* <div class="x"></div>
LowercaseTag ==
  <<"<", "d", "i", "v", " ", "c", "l", "a", "s", "s", "=", "\"", "x", "\"", ">", "<", "/", "d", "i", "v", ">">>

\* <My.Sub class="z">
DottedTag ==
  <<"<", "M", "y", ".", "S", "u", "b", " ", "c", "l", "a", "s", "s", "=", "\"", "z", "\"", ">">>

\* <Foo class="a" class="b">
TwoClassAttrs ==
  <<"<", "F", "o", "o", " ", "c", "l", "a", "s", "s", "=", "\"", "a", "\"", " ", "c", "l", "a", "s", "s", "=", "\"", "b", "\"", ">">>

\* <Foo a={<div class="x"></div>} />
NestedLowercase ==
  <<"<", "F", "o", "o", " ", "a", "=", "{", "<", "d", "i", "v", " ", "c", "l", "a", "s", "s", "=", "\"", "x", "\"", ">", "<", "/", "d", "i", "v", ">", "}", " ", "/", ">">>

\* <Foo subclass="x">
SubclassAttr ==
  <<"<", "F", "o", "o", " ", "s", "u", "b", "c", "l", "a", "s", "s", "=", "\"", "x", "\"", ">">>

\* <Foo data-class="x">
DataClassAttr ==
  <<"<", "F", "o", "o", " ", "d", "a", "t", "a", "-", "c", "l", "a", "s", "s", "=", "\"", "x", "\"", ">">>

\* <Foo class="x'>
MixedQuotes ==
  <<"<", "F", "o", "o", " ", "c", "l", "a", "s", "s", "=", "\"", "x", "'", ">">>

\* <Foo class={x} id="y">
ExprValue ==
  <<"<", "F", "o", "o", " ", "c", "l", "a", "s", "s", "=", "{", "x", "}", " ", "i", "d", "=", "\"", "y", "\"", ">">>

\* <Foo className="a b"></Foo>
SimpleTagFixed ==
  <<"<", "F", "o", "o", " ", "c", "l", "a", "s", "s", "N", "a", "m", "e", "=", "\"", "a", " ", "b", "\"", ">", "<", "/", "F", "o", "o", ">">>

\* <Foo className="x" /> <Bar className="y" />
TwoTagsFixed ==
  <<"<", "F", "o", "o", " ", "c", "l", "a", "s", "s", "N", "a", "m", "e", "=", "\"", "x", "\"", " ", "/", ">", " ", "<", "B", "a", "r", " ", "c", "l", "a", "s", "s", "N", "a", "m", "e", "=", "\"", "y", "\"", " ", "/", ">">>

\* <My.Sub className="z">
DottedTagFixed ==
  <<"<", "M", "y", ".", "S", "u", "b", " ", "c", "l", "a", "s", "s", "N", "a", "m", "e", "=", "\"", "z", "\"", ">">>

Samples ==
  { SimpleTag, TwoTags, LowercaseTag, DottedTag, TwoClassAttrs, NestedLowercase,
    SubclassAttr, DataClassAttr, MixedQuotes, ExprValue,
    SimpleTagFixed, TwoTagsFixed, DottedTagFixed }

Pieces ==
  { <<"<", "F", "o">>, <<" ">>, <<".">>, <<"s">>, ClassEq, <<"\"">>, <<"'">>, <<">">> }

\* Longest text of the exhaustive part, in pieces.
MaxPieces == 5

\* Most documented cases joined end to end into one text.
MaxJoined == 2

RECURSIVE Joins(_, _)
\* Every concatenation of at most n members of base.
Joins(base, n) ==
  IF n = 0 THEN {<<>>}
  ELSE LET T == Joins(base, n - 1) IN T \cup {t \o p : t \in T, p \in base}

Inputs == Joins(Samples, MaxJoined) \cup Joins(Pieces, MaxPieces)

----------------------------------------------------------------------------
(* The rewriter alone: one pass over a text, then a second pass over the   *)
(* result, as a second run of the script over the same file would do.      *)

NoText == <<>>

\* No exception has been raised.
NoExc == [kind |-> "none", r |-> 0, f |-> 0]

InitRewrite ==
  /\ pc = "input"
  /\ content \in Inputs
  /\ new_content = NoText
  /\ again = NoText
  /\ status = <<>>
  /\ disk = <<>>
  /\ disk0 = <<>>
  /\ ri = 0
  /\ fi = 0
  /\ out = <<>>
  /\ opened = {}
  /\ exc = NoExc

FirstPass ==
  /\ pc = "input"
  /\ new_content' = PatternSub(content)
  /\ pc' = "once"
  /\ UNCHANGED <<content, again, status, disk, disk0, ri, fi, out, opened, exc>>

SecondPass ==
  /\ pc = "once"
  /\ again' = PatternSub(new_content)
  /\ pc' = "twice"
  /\ UNCHANGED <<content, new_content, status, disk, disk0, ri, fi, out, opened, exc>>

NextRewrite == FirstPass \/ SecondPass

SpecRewrite == InitRewrite /\ [][NextRewrite]_vars

----------------------------------------------------------------------------
(* The script: fix_astro_files(pages) then fix_astro_files(components).    *)

\* The two directories named by the module-level calls, in call order.
RootPath ==
  << <<"/", "h", "o", "m", "e", "/", "s", "w", "a", "d", "h", "i", "n", "/", "o", "w", "n", "g", "i", "t", "/", "O", "p", "e", "n", "C", "o", "d", "e", "H", "u", "b", "/", "s", "r", "c", "/", "p", "a", "g", "e", "s">>,
     <<"/", "h", "o", "m", "e", "/", "s", "w", "a", "d", "h", "i", "n", "/", "o", "w", "n", "g", "i", "t", "/", "O", "p", "e", "n", "C", "o", "d", "e", "H", "u", "b", "/", "s", "r", "c", "/", "c", "o", "m", "p", "o", "n", "e", "n", "t", "s">> >>

Roots == 1..Len(RootPath)

DotAstro == <<".", "a", "s", "t", "r", "o">>
Slash == <<"/">>
FixingPrefix == <<"F", "i", "x", "i", "n", "g", " ">>

\* The trees under the two roots, as os.walk lists them (top down): each
\* entry is a regular file, dir its directory relative to the root.
Tree ==
  << << [dir |-> <<>>, name |-> <<"i", "n", "d", "e", "x", ".", "a", "s", "t", "r", "o">>],
        [dir |-> <<>>, name |-> <<"c", "o", "m", "p", "o", "n", "e", "n", "t", ".", "h", "t", "m", "l">>],
        [dir |-> <<"a", "d", "m", "i", "n">>, name |-> <<"r", "o", "l", "e", "s", ".", "a", "s", "t", "r", "o">>],
        [dir |-> <<"a", "d", "m", "i", "n">>, name |-> <<"u", "s", "e", "r", "s", ".", "a", "s", "t", "r", "o">>] >>,
     << [dir |-> <<>>, name |-> <<"C", "a", "r", "d", ".", "a", "s", "t", "r", "o">>],
        [dir |-> <<>>, name |-> <<"p", "a", "g", "e", ".", "A", "S", "T", "R", "O">>],
        [dir |-> <<"o", "l", "d", ".", "a", "s", "t", "r", "o">>, name |-> <<"x", ".", "a", "s", "t", "r", "o", ".", "b", "a", "k">>] >> >>

RootStatus == {"ok", "missing", "unreadable"}

\* Texts a file may hold before the run.
FileTexts == {SimpleTag, SimpleTagFixed}

\* The files that exist under root r: none when the root itself is missing.
FilesUnder(st, r) == IF st[r] = "missing" THEN <<>> ELSE Tree[r]

FileIds(st) == UNION {{<<r, i>> : i \in 1..Len(FilesUnder(st, r))} : r \in Roots}

\* Variant: the walk lists the files even when the root cannot be listed.
WalkUnchecked(r) == FilesUnder(status, r)

\* os.walk(directory): a root that cannot be listed yields nothing, and the
\* error is dropped (onerror is None).
Walk(r) == IF status[r] = "ok" THEN FilesUnder(status, r) ELSE <<>>

\* Variant: the suffix may sit anywhere in the name.
ContainsSuffix(name, suffix) ==
  \E k \in 0..(Len(name) - Len(suffix)) : SubSeq(name, k + 1, k + Len(suffix)) = suffix

\* file.endswith(".astro")
EndsWith(name, suffix) ==
  /\ Len(name) >= Len(suffix)
  /\ SubSeq(name, Len(name) - Len(suffix) + 1, Len(name)) = suffix

\* os.path.join(root, file), root being the directory os.walk is in.
DirPath(r, e) == IF e.dir = <<>> THEN RootPath[r] ELSE RootPath[r] \o Slash \o e.dir
FilePath(r, e) == DirPath(r, e) \o Slash \o e.name

\* f"Fixing {filepath}"
FixingLine(path) == FixingPrefix \o path

\* Variant: the file is rewritten whatever the comparison says.
DiffersAlways(a, b) == TRUE

\* new_content != content
Differs(a, b) == a # b

Cur == <<ri, fi>>
CurEntry == Walk(ri)[fi]

Init ==
  /\ pc = "walk"
  /\ status \in [Roots -> RootStatus]
  /\ disk0 \in [FileIds(status) -> FileTexts]
  /\ disk = disk0
  /\ ri = 1
  /\ fi = 1
  /\ content = NoText
  /\ new_content = NoText
  /\ again = NoText
  /\ out = <<>>
  /\ opened = {}
  /\ exc = NoExc

\* for file in files: the name does not end in ".astro".
SkipFile ==
  /\ pc = "walk"
  /\ fi <= Len(Walk(ri))
  /\ ~EndsWith(CurEntry.name, DotAstro)
  /\ fi' = fi + 1
  /\ UNCHANGED <<pc, content, new_content, again, status, disk, disk0, ri, out, opened, exc>>

\* for file in files: the name ends in ".astro".
SelectFile ==
  /\ pc = "walk"
  /\ fi <= Len(Walk(ri))
  /\ EndsWith(CurEntry.name, DotAstro)
  /\ pc' = "read"
  /\ UNCHANGED <<content, new_content, again, status, disk, disk0, ri, fi, out, opened, exc>>

\* The walk of this root is exhausted; the next module-level call starts.
NextRoot ==
  /\ pc = "walk"
  /\ fi > Len(Walk(ri))
  /\ ri < Len(RootPath)
  /\ ri' = ri + 1
  /\ fi' = 1
  /\ UNCHANGED <<pc, content, new_content, again, status, disk, disk0, out, opened, exc>>

\* The walk of the last root is exhausted; the script ends.
Finish ==
  /\ pc = "walk"
  /\ fi > Len(Walk(ri))
  /\ ri = Len(RootPath)
  /\ pc' = "done"
  /\ UNCHANGED <<content, new_content, again, status, disk, disk0, ri, fi, out, opened, exc>>

\* with open(filepath, 'r') as f: content = f.read()
ReadFile ==
  /\ pc = "read"
  /\ opened' = opened \cup {<<Cur, "r">>}
  /\ content' = disk[Cur]
  /\ pc' = "sub"
  /\ UNCHANGED <<new_content, again, status, disk, disk0, ri, fi, out, exc>>

\* Variant: the failure is swallowed and the loop goes on to the next file.
ReadFailSkips ==
  /\ pc = "read"
  /\ \E o \in {opened, opened \cup {<<Cur, "r">>}} : opened' = o
  /\ exc' = [kind |-> "read", r |-> ri, f |-> fi]
  /\ pc' = "walk"
  /\ fi' = fi + 1
  /\ UNCHANGED <<content, new_content, again, status, disk, disk0, ri, out>>

\* open() or read() raises (permissions, decoding, file gone): nothing
\* catches it, so it leaves fix_astro_files and ends the script.
ReadFail ==
  /\ pc = "read"
  /\ \E o \in {opened, opened \cup {<<Cur, "r">>}} : opened' = o
  /\ exc' = [kind |-> "read", r |-> ri, f |-> fi]
  /\ pc' = "aborted"
  /\ UNCHANGED <<content, new_content, again, status, disk, disk0, ri, fi, out>>

\* new_content = pattern.sub(replace_match, content)
Substitute ==
  /\ pc = "sub"
  /\ new_content' = PatternSub(content)
  /\ pc' = "cmp"
  /\ UNCHANGED <<content, again, status, disk, disk0, ri, fi, out, opened, exc>>

\* if new_content != content: taken; print(f"Fixing {filepath}")
PrintFixing ==
  /\ pc = "cmp"
  /\ Differs(new_content, content)
  /\ out' = Append(out, FixingLine(FilePath(ri, CurEntry)))
  /\ pc' = "open_w"
  /\ UNCHANGED <<content, new_content, again, status, disk, disk0, ri, fi, opened, exc>>

\* if new_content != content: not taken; on to the next file.
LeaveUnchanged ==
  /\ pc = "cmp"
  /\ ~Differs(new_content, content)
  /\ pc' = "walk"
  /\ fi' = fi + 1
  /\ UNCHANGED <<content, new_content, again, status, disk, disk0, ri, out, opened, exc>>

\* open(filepath, 'w'): the file is truncated as it is opened.
OpenForWrite ==
  /\ pc = "open_w"
  /\ opened' = opened \cup {<<Cur, "w">>}
  /\ disk' = [disk EXCEPT ![Cur] = <<>>]
  /\ pc' = "write"
  /\ UNCHANGED <<content, new_content, again, status, disk0, ri, fi, out, exc>>

\* open(filepath, 'w') raises (read-only file): the script ends.
OpenForWriteFail ==
  /\ pc = "open_w"
  /\ exc' = [kind |-> "write", r |-> ri, f |-> fi]
  /\ pc' = "aborted"
  /\ UNCHANGED <<content, new_content, again, status, disk, disk0, ri, fi, out, opened>>

\* f.write(new_content) and the close at the end of the with block.
WriteFile ==
  /\ pc = "write"
  /\ disk' = [disk EXCEPT ![Cur] = new_content]
  /\ pc' = "walk"
  /\ fi' = fi + 1
  /\ UNCHANGED <<content, new_content, again, status, disk0, ri, out, opened, exc>>

\* The write or the flush on close raises (disk full): a strict prefix of
\* the new content is what reached the file; the script ends.
WriteFail ==
  /\ pc = "write"
  /\ \E n \in 0..(Len(new_content) - 1) :
        disk' = [disk EXCEPT ![Cur] = SubSeq(new_content, 1, n)]
  /\ exc' = [kind |-> "write", r |-> ri, f |-> fi]
  /\ pc' = "aborted"
  /\ UNCHANGED <<content, new_content, again, status, disk0, ri, fi, out, opened>>

\* The process is terminated from outside; a file open for writing keeps
\* whatever part of the new content had been flushed.
Interrupt ==
  /\ pc \notin {"done", "aborted", "killed"}
  /\ IF pc = "write"
     THEN \E n \in 0..(Len(new_content) - 1) :
             disk' = [disk EXCEPT ![Cur] = SubSeq(new_content, 1, n)]
     ELSE disk' = disk
  /\ pc' = "killed"
  /\ UNCHANGED <<content, new_content, again, status, disk0, ri, fi, out, opened, exc>>

Next ==
  \/ SkipFile
  \/ SelectFile
  \/ NextRoot
  \/ Finish
  \/ ReadFile
  \/ ReadFail
  \/ Substitute
  \/ PrintFixing
  \/ LeaveUnchanged
  \/ OpenForWrite
  \/ OpenForWriteFail
  \/ WriteFile
  \/ WriteFail
  \/ Interrupt

Spec == Init /\ [][Next]_vars

----------------------------------------------------------------------------
(* The pattern read as a description of the spans it matches, without the  *)
(* matcher's search order.                                                 *)

NameInserted == <<"N", "a", "m", "e">>

\* Position after the quoted value opening at v: s[v] is a quote and the
\* next quote of either kind closes it.  0 when v opens no quoted value.
ValueEnd(s, v) ==
  IF At(s, v) \in Quote /\ \E q \in (v + 1)..Len(s) : s[q] \in Quote
  THEN 1 + CHOOSE q \in (v + 1)..Len(s) :
              /\ s[q] \in Quote
              /\ \A j \in (v + 1)..(q - 1) : s[j] \notin Quote
  ELSE 0

\* Positions of a class= token at a word boundary carrying a quoted value.
ClassTokens(s) ==
  {k \in 1..Len(s) :
     Literal(s, k, ClassEq) /\ WordBoundary(s, k) /\ ValueEnd(s, k + Len(ClassEq)) # 0}

\* s[i..k-1] is "<", a capital, a name, optionally whitespace and a run
\* of characters other than ">".
PrefixSpan(s, i, k) ==
  /\ At(s, i) = "<"
  /\ At(s, i + 1) \in Upper
  /\ \E p \in (i + 3)..k :
       /\ \A j \in (i + 2)..(p - 1) : IsNameChar(s[j])
       /\ \/ p = k
          \/ \E q \in (p + 1)..k :
               /\ \A j \in p..(q - 1) : IsSpace(s[j])
               /\ \A j \in q..(k - 1) : s[j] # ">"

\* Start positions >= pos of a span the pattern matches, C being the
\* class= tokens of s.
MatchStarts(s, pos, C) ==
  {i \in pos..Len(s) : s[i] = "<" /\ \E k \in C : PrefixSpan(s, i, k)}

HasMatch(s) == MatchStarts(s, 1, ClassTokens(s)) # {}

Min(S) == CHOOSE x \in S : \A y \in S : x <= y
Max(S) == CHOOSE x \in S : \A y \in S : x >= y

RECURSIVE InsertFrom(_, _, _)
\* s from pos on, with Name put after the class of the first class= token
\* reachable from the leftmost match start, then likewise after its value.
InsertFrom(s, pos, C) ==
  LET starts == MatchStarts(s, pos, C) IN
  IF starts = {} THEN SubSeq(s, pos, Len(s))
  ELSE LET i == Min(starts)
           k == Min({c \in C : PrefixSpan(s, i, c)})
           e == ValueEnd(s, k + Len(ClassEq))
       IN SubSeq(s, pos, k + 4) \o NameInserted \o SubSeq(s, k + 5, e - 1)
            \o InsertFrom(s, e, C)

\* The reference substitution.
Reference(s) == InsertFrom(s, 1, ClassTokens(s))

\* Positions in s of the class= tokens one pass rewrites.
Rewritten(s) == {Matches(s)[j].g1 : j \in 1..Len(Matches(s))}

----------------------------------------------------------------------------
(* Properties of the rewriter, checked under SpecRewrite.                  *)

\* C1: a second pass over the result of the first changes nothing, for
\* every text.
Idempotent == pc = "twice" => again = new_content

\* C4: one pass gives the reference substitution: every leftmost
\* non-overlapping match has Name put after its class, nothing else
\* changes, and the result is four characters longer per match.
SubIsReference ==
  pc = "once" =>
    /\ new_content = Reference(content)
    /\ Len(new_content) = Len(content) + Len(NameInserted) * Len(Matches(content))
    /\ content = TwoTags => new_content = TwoTagsFixed
    /\ content = SimpleTag => new_content = SimpleTagFixed
    /\ content = DottedTag => new_content = DottedTagFixed

\* A text with two matches has been rewritten in one pass.
TwoMatchesRewritten ==
  /\ pc = "once"
  /\ Len(Matches(content)) >= 2
  /\ new_content = Reference(content)
  /\ Len(new_content) = Len(content) + 2 * Len(NameInserted)

\* The "<" that opens the tag the position k lies in (0 if there is none).
TagOpen(s, k) == Max({0} \cup {i \in 1..(k - 1) : s[i] = "<"})

\* C5: no class= of a tag whose name starts with a lowercase letter is
\* rewritten, whatever precedes that tag.
LowercaseTagsUntouched ==
  pc # "input" =>
    \A k \in Rewritten(content) : At(content, TagOpen(content, k) + 1) \notin Lower

IsAttrNameChar(c) == IsWord(c) \/ c \in {"-", ".", ":"}

\* The attribute name that ends just before position k starts after
\* whitespace and is not empty: class at k is the tail of a longer name.
TailOfLongerName(s, k) ==
  \E a \in 1..(k - 1) :
    /\ \A j \in a..(k - 1) : IsAttrNameChar(s[j])
    /\ IsSpace(At(s, a - 1))

\* C6: no class= that is the tail of a longer attribute name is rewritten.
WholeAttributeOnly ==
  pc # "input" => \A k \in Rewritten(content) : ~TailOfLongerName(content, k)

\* C10: every rewritten class= is bound to a value that opens and closes
\* with the same kind of quote and has no quote in between.
QuotedValueOnly ==
  pc # "input" =>
    \A j \in 1..Len(Matches(content)) :
      LET m == Matches(content)[j]
          v == m.g1 + Len(ClassEq)
      IN /\ content[v] \in Quote
         /\ content[m.end - 1] = content[v]
         /\ \A x \in (v + 1)..(m.end - 2) : content[x] \notin Quote

----------------------------------------------------------------------------
(* Properties of a run of the script, checked under Spec.                  *)

\* Number of lines printed for the file id.
LineCount(id) ==
  Cardinality({n \in 1..Len(out) :
                 out[n] = FixingLine(FilePath(id[1], Tree[id[1]][id[2]]))})

\* id comes before other in the traversal: earlier root, or earlier entry.
Before(id, other) ==
  id[1] < other[1] \/ (id[1] = other[1] /\ id[2] < other[2])

\* id is yielded by a walk and passes the suffix test.
Selected(id) ==
  status[id[1]] = "ok" /\ EndsWith(Tree[id[1]][id[2]].name, DotAstro)

\* Never opened, never logged, content as before the run.
Untouched(id) ==
  /\ disk[id] = disk0[id]
  /\ \A mode \in {"r", "w"} : <<id, mode>> \notin opened
  /\ LineCount(id) = 0

\* C2: a file is logged at most once, and written only after it was
\* logged; a file without a match is never written nor logged; a selected
\* file whose processing is over was logged and fully rewritten exactly
\* when the pattern matches in it.
FixingIffChanged ==
  \A id \in DOMAIN disk :
    LET matches == HasMatch(disk0[id])
        written == <<id, "w">> \in opened
    IN /\ LineCount(id) <= 1
       /\ written => LineCount(id) = 1
       /\ LineCount(id) = 1 => matches
       /\ ~matches => disk[id] = disk0[id] /\ ~written
       /\ (Selected(id) /\ Before(id, Cur) /\ matches) =>
             /\ LineCount(id) = 1
             /\ written
             /\ disk[id] = Reference(disk0[id])

\* The run is over; one selected file was logged and rewritten, another
\* was read and left alone.
LoggedAndSilent ==
  /\ pc = "done"
  /\ \E id \in DOMAIN disk :
        Selected(id) /\ LineCount(id) = 1 /\ disk[id] # disk0[id]
  /\ \E id \in DOMAIN disk :
        Selected(id) /\ <<id, "r">> \in opened /\ LineCount(id) = 0

\* C3: every file holds, in every state, its original content or its
\* complete rewritten content.
NoPartialWrites ==
  \A id \in DOMAIN disk : disk[id] \in {disk0[id], PatternSub(disk0[id])}

\* Names under the roots that do not end in ".astro".
OtherNames ==
  { <<"c", "o", "m", "p", "o", "n", "e", "n", "t", ".", "h", "t", "m", "l">>,
    <<"p", "a", "g", "e", ".", "A", "S", "T", "R", "O">>,
    <<"x", ".", "a", "s", "t", "r", "o", ".", "b", "a", "k">> }

\* C7: component.html, page.ASTRO and x.astro.bak are never opened,
\* logged or changed, whatever they hold.
OnlyAstroOpened ==
  \A id \in DOMAIN disk :
    Tree[id[1]][id[2]].name \in OtherNames => Untouched(id)

\* The run is over, both roots were walked, files of other types hold a
\* match and a .astro file was rewritten.
OthersHoldMatch ==
  /\ pc = "done"
  /\ \A r \in Roots : status[r] = "ok"
  /\ \A id \in DOMAIN disk :
        Tree[id[1]][id[2]].name \in OtherNames => HasMatch(disk[id])
  /\ \E id \in DOMAIN disk : <<id, "w">> \in opened

\* C8: once a read or a write has failed the script is over: the files
\* before the failing one keep their rewritten content and no file after
\* it, in this root or a later one, is read, written or logged.
AbortStopsRun ==
  exc.kind # "none" =>
    /\ pc = "aborted"
    /\ Cur = <<exc.r, exc.f>>
    /\ \A id \in DOMAIN disk :
         /\ Before(Cur, id) => Untouched(id)
         /\ (Before(id, Cur) /\ Selected(id)) => disk[id] = Reference(disk0[id])

\* A failure in the first root, after a file was rewritten and before
\* files with a match, in this root and in the next.
AbortedMidRun ==
  /\ pc = "aborted"
  /\ \E id \in DOMAIN disk : Before(id, Cur) /\ disk[id] # disk0[id]
  /\ \E id \in DOMAIN disk :
        id[1] = ri /\ Before(Cur, id) /\ Selected(id) /\ HasMatch(disk0[id])
  /\ \E id \in DOMAIN disk :
        id[1] > ri /\ Selected(id) /\ HasMatch(disk0[id])

\* C9: a root that is missing or unreadable yields no file, raises
\* nothing, prints nothing and changes nothing; the roots are walked in
\* order, each to completion, and the run goes on to the next one.
BadRootIsSkipped ==
  /\ \A r \in Roots :
       status[r] # "ok" =>
         /\ \A id \in DOMAIN disk : id[1] = r => Untouched(id)
         /\ exc.r # r
         /\ ri = r => pc \in {"walk", "killed", "done"}
  /\ \A id \in DOMAIN disk :
       /\ (\E mode \in {"r", "w"} : <<id, mode>> \in opened) => id[1] <= ri
       /\ (Selected(id) /\ (id[1] < ri \/ pc = "done")) => <<id, "r">> \in opened

\* The first root could not be walked and the second one was processed.
SecondRootProcessed ==
  /\ pc = "done"
  /\ status[1] # "ok"
  /\ status[2] = "ok"
  /\ out # <<>>

====
